---- MODULE Spec2Model ----
(***************************************************************************)
(* Stable-memory storage manager of CustomDelegation (storage.rs): the     *)
(* header at address 0, slot addressing, and the persistent-state frame.   *)
(*                                                                         *)
(* u8 and u16 values are naturals.  u32 and u64 values are little-endian   *)
(* byte sequences of 4 and 8 bytes (their in-memory representation on the  *)
(* little-endian targets the crate is built for), because their full       *)
(* range does not fit the model checker's integers; arithmetic on them is  *)
(* carried out bytewise with the width of the Rust type.                   *)
(***************************************************************************)
EXTENDS Naturals, Sequences, FiniteSets, TLC

\* ------------------------------------------------------------------ bounds

\* Largest number of pages the host memory can grow to (Memory::grow fails beyond).
MaxPages == 4

\* Largest number of fields of a snapshot (its encoding has one byte per field).
MaxLen == 2

\* ------------------------------------------------------- wide unsigned ints

\* A byte sequence and a sparse byte map given as function constructors, as
\* values computed once: they are the same functions (f \o <<>> = f and
\* f @@ g = f for the empty g), but the model checker then does not evaluate
\* the constructor's body again at every application.
AsSeq(f) == f \o <<>>
AsMap(f) == f @@ [a \in {} |-> 0]

Pow256(i) == IF i = 0 THEN 1 ELSE IF i = 1 THEN 256 ELSE IF i = 2 THEN 65536 ELSE 16777216

\* n.to_le_bytes() for an unsigned value n < 2^31 of a type w bytes wide.
LE(n, w) == AsSeq([i \in 1..w |-> IF i <= 4 THEN (n \div Pow256(i - 1)) % 256 ELSE 0])

U32(n) == LE(n, 4)
U64(n) == LE(n, 8)

\* `x as u64` for a narrower unsigned x: zero extension.
Widen(b, w) == AsSeq([i \in 1..w |-> IF i <= Len(b) THEN b[i] ELSE 0])

\* The value is below 2^31, so that it can be used as an integer of the model.
FitsNat(b) == \A i \in 1..Len(b) : (i = 4 => b[i] < 128) /\ (i > 4 => b[i] = 0)

\* uN::from_le_bytes(b), for values with FitsNat(b).
ToNat(b) ==
    LET byte(i) == IF i <= Len(b) THEN b[i] ELSE 0
    IN  byte(1) + 256 * byte(2) + 65536 * byte(3) + 16777216 * byte(4)

\* Carry into byte i of a + b: a lower byte generates it and every byte in
\* between passes it on.
AddCarry(a, b, i) ==
    IF \E j \in 1..(i - 1) :
          /\ a[j] + b[j] > 255
          /\ \A k \in (j + 1)..(i - 1) : a[k] + b[k] = 255
    THEN 1 ELSE 0

\* a.overflowing_add(b): the wrapped sum and whether it wrapped.
AddW(a, b) ==
    [val |-> AsSeq([i \in 1..Len(a) |-> (a[i] + b[i] + AddCarry(a, b, i)) % 256]),
     overflow |-> AddCarry(a, b, Len(a) + 1) = 1]

\* Borrow into byte i of a - b.
SubBorrow(a, b, i) ==
    IF \E j \in 1..(i - 1) :
          /\ a[j] < b[j]
          /\ \A k \in (j + 1)..(i - 1) : a[k] = b[k]
    THEN 1 ELSE 0

\* a.overflowing_sub(b).
SubW(a, b) ==
    [val |-> AsSeq([i \in 1..Len(a) |-> (256 + a[i] - b[i] - SubBorrow(a, b, i)) % 256]),
     overflow |-> SubBorrow(a, b, Len(a) + 1) = 1]

\* a < b and a <= b on unsigned values of the same width.
LtW(a, b) ==
    \E i \in 1..Len(a) : a[i] < b[i] /\ \A k \in (i + 1)..Len(a) : a[k] = b[k]
LeW(a, b) == ~LtW(b, a)

\* a.wrapping_mul(b) on unsigned values of the same width: schoolbook
\* multiplication, column k summing the byte products a[j] * b[k + 1 - j].
MulW(a, b) ==
    LET column(k) ==
            LET partial[j \in 0..k] ==
                    IF j = 0 THEN 0 ELSE a[j] * b[k + 1 - j] + partial[j - 1]
            IN  partial[k]
        carry[k \in 1..Len(a)] ==
            IF k = 1 THEN 0 ELSE (column(k - 1) + carry[k - 1]) \div 256
    IN  AsSeq([k \in 1..Len(a) |-> (column(k) + carry[k]) % 256])

\* a / d for a divisor 0 < d < 2^23: long division from the most significant
\* byte.
DivSmall(a, d) ==
    LET rem[i \in 1..(Len(a) + 1)] ==
            IF i > Len(a) THEN 0 ELSE (rem[i + 1] * 256 + a[i]) % d
    IN  AsSeq([i \in 1..Len(a) |-> (rem[i + 1] * 256 + a[i]) \div d])

\* `x as usize` on a target whose usize has the given number of bits.
AsUsize(b, bits) == AsSeq([i \in 1..Len(b) |-> IF 8 * i <= bits THEN b[i] ELSE 0])

\* -------------------------------------------------------- program constants

\* The supported range reaching one version further.
SUPPORTED_LAYOUT_VERSIONS_UpTo6 == 3..6

SUPPORTED_LAYOUT_VERSIONS == 3..5

WASM_PAGE_SIZE == 65536

ENTRY_OFFSET == U64(2 * WASM_PAGE_SIZE)

DEFAULT_ENTRY_SIZE == 4096

EMPTY_SALT == AsSeq([i \in 1..32 |-> 0])

GB == U64(1073741824)

STABLE_MEMORY_SIZE == MulW(U64(32), GB)

STABLE_MEMORY_RESERVE == DivSmall(MulW(U64(8), GB), 10)

\* b"IIPS"
PERSISTENT_STATE_MAGIC == <<73, 73, 80, 83>>

DEFAULT_RANGE_SIZE ==
    DivSmall(SubW(SubW(STABLE_MEMORY_SIZE, ENTRY_OFFSET).val, STABLE_MEMORY_RESERVE).val,
             DEFAULT_ENTRY_SIZE)

\* b"IIC"
HEADER_MAGIC == <<73, 73, 67>>

\* std::mem::size_of::<Header>() of the packed struct: 3+1+4+8+8+2+32+8+4+4.
HeaderSize == 74

\* The builds of the crate: the canister (32-bit usize, wrapping arithmetic, a
\* trap rolls the message's writes back) and native builds with and without
\* overflow checks (64-bit usize, a panic leaves earlier writes in place).
Builds ==
    {[target |-> "wasm32", usize_bits |-> 32, overflow_checks |-> FALSE],
     [target |-> "native", usize_bits |-> 64, overflow_checks |-> TRUE],
     [target |-> "native", usize_bits |-> 64, overflow_checks |-> FALSE]}

\* isize::MAX of a build, as a u64.
IsizeMax(build) ==
    AsSeq([i \in 1..8 |-> IF 8 * i < build.usize_bits THEN 255
                          ELSE IF 8 * i = build.usize_bits THEN 127 ELSE 0])

\* ------------------------------------------------------------ host memory
\* A memory is its page count and its nonzero bytes (every other byte of a
\* grown page is zero).

EmptyMemory == [pages |-> 0, bytes |-> [a \in {} |-> 0]]

\* Memory::size() * WASM_PAGE_SIZE
MemoryEnd(mem) == mem.pages * WASM_PAGE_SIZE

MemByte(mem, a) == IF a \in DOMAIN mem.bytes THEN mem.bytes[a] ELSE 0

\* Memory::read(offset, dst) with Len(dst) = n, inside the grown pages.
MemRead(mem, offset, n) == AsSeq([i \in 1..n |-> MemByte(mem, offset + i - 1)])

\* Memory::write(offset, src), inside the grown pages.
MemWrite(mem, offset, src) ==
    LET W == {offset + i - 1 : i \in 1..Len(src)}
        at(a) == IF a \in W THEN src[a - offset + 1] ELSE mem.bytes[a]
        D == {a \in (DOMAIN mem.bytes) \cup W : at(a) # 0}
    IN  [mem EXCEPT !.bytes = AsMap([a \in D |-> at(a)])]

\* Writer::write sizing the memory to the end of the write, also when the
\* memory reaches further.
WriterWrite_Resize(mem, offset, buf) ==
    LET end == AddW(offset, U64(Len(buf)))
    IN  IF end.overflow \/ LtW(U64(MaxPages * WASM_PAGE_SIZE), end.val)
        THEN [ok |-> FALSE, mem |-> mem]
        ELSE LET e == ToNat(end.val)
                 sized == [mem EXCEPT !.pages = (e + WASM_PAGE_SIZE - 1) \div WASM_PAGE_SIZE]
             IN  [ok |-> TRUE, mem |-> MemWrite(sized, ToNat(offset), buf)]

\* Writer::write(buf) of a writer at `offset` (a u64): grows the memory by the
\* pages needed to cover the write, fails when the end of the write overflows
\* the address space or the host cannot grow that far.
WriterWrite(mem, offset, buf) ==
    LET end == AddW(offset, U64(Len(buf)))
    IN  IF end.overflow \/ LtW(U64(MaxPages * WASM_PAGE_SIZE), end.val)
        THEN [ok |-> FALSE, mem |-> mem]
        ELSE LET e == ToNat(end.val)
                 cur == MemoryEnd(mem)
                 grown == IF e > cur
                          THEN [mem EXCEPT !.pages =
                                   @ + (e - cur + WASM_PAGE_SIZE - 1) \div WASM_PAGE_SIZE]
                          ELSE mem
             IN  [ok |-> TRUE, mem |-> MemWrite(grown, ToNat(offset), buf)]

\* Reader::read(buf) of a reader at `offset` (inside or at the end of the grown
\* pages) into a buffer of buflen bytes (a u64): transfers the bytes available
\* up to the end of the memory, and fails when none is.
ReaderRead(mem, offset, buflen) ==
    LET memory_end_addr == MemoryEnd(mem)
    IN  IF LtW(U64(memory_end_addr), AddW(buflen, U64(offset)).val)
        THEN IF offset < memory_end_addr
             THEN [ok |-> TRUE, n |-> memory_end_addr - offset]
             ELSE [ok |-> FALSE, max_address |-> memory_end_addr,
                   attempted_read_address |-> offset]
        ELSE [ok |-> TRUE, n |-> ToNat(buflen)]

\* ----------------------------------------------------------------- header

\* The bytes of a Header value, as flush and from_memory view it through a raw
\* pointer: the fields of the packed struct in declaration order.
\* The bytes of the struct without repr(packed): first_entry_offset aligned
\* to 8 bytes, after 6 bytes of padding.
HeaderBytes_Unpacked(h) ==
    h.magic \o <<h.version>> \o h.num_users \o h.id_range_lo \o h.id_range_hi
      \o LE(h.entry_size, 2) \o h.salt \o <<0, 0, 0, 0, 0, 0>> \o h.first_entry_offset
      \o h.new_layout_start \o h.migration_batch_size

HeaderBytes(h) ==
    h.magic \o <<h.version>> \o h.num_users \o h.id_range_lo \o h.id_range_hi
      \o LE(h.entry_size, 2) \o h.salt \o h.first_entry_offset
      \o h.new_layout_start \o h.migration_batch_size

\* The header read with entry_size taken for 4 bytes wide: the salt and
\* first_entry_offset 2 bytes too late.
HeaderFromBytes_WideEntrySize(b) ==
    [magic |-> SubSeq(b, 1, 3),
     version |-> b[4],
     num_users |-> SubSeq(b, 5, 8),
     id_range_lo |-> SubSeq(b, 9, 16),
     id_range_hi |-> SubSeq(b, 17, 24),
     entry_size |-> b[25] + 256 * b[26],
     salt |-> SubSeq(b, 29, 60),
     first_entry_offset |-> SubSeq(b, 61, 68),
     new_layout_start |-> SubSeq(b, 67, 70),
     migration_batch_size |-> SubSeq(b, 71, 74)]

\* The header read with id_range_hi one byte too early.
HeaderFromBytes_Misaligned(b) ==
    [magic |-> SubSeq(b, 1, 3),
     version |-> b[4],
     num_users |-> SubSeq(b, 5, 8),
     id_range_lo |-> SubSeq(b, 9, 16),
     id_range_hi |-> SubSeq(b, 16, 23),
     entry_size |-> b[25] + 256 * b[26],
     salt |-> SubSeq(b, 27, 58),
     first_entry_offset |-> SubSeq(b, 59, 66),
     new_layout_start |-> SubSeq(b, 67, 70),
     migration_batch_size |-> SubSeq(b, 71, 74)]

\* The Header value whose bytes are b.
HeaderFromBytes(b) ==
    [magic |-> SubSeq(b, 1, 3),
     version |-> b[4],
     num_users |-> SubSeq(b, 5, 8),
     id_range_lo |-> SubSeq(b, 9, 16),
     id_range_hi |-> SubSeq(b, 17, 24),
     entry_size |-> b[25] + 256 * b[26],
     salt |-> SubSeq(b, 27, 58),
     first_entry_offset |-> SubSeq(b, 59, 66),
     new_layout_start |-> SubSeq(b, 67, 70),
     migration_batch_size |-> SubSeq(b, 71, 74)]

\* ------------------------------------------------------------------ codec
\* PersistentState and its candid encoding live outside storage.rs.  A snapshot
\* is a sequence of fields; a field encodes to one byte, and a byte that
\* encodes no field does not decode.

SnapshotFields == {1, 2}

FieldByte(f) == 48 + f

\* The sequences over S of length at most n.
SeqsUpTo(S, n) == UNION {[1..k -> S] : k \in 0..n}

Snapshots == SeqsUpTo(SnapshotFields, MaxLen)

\* candid::encode_one(state)
encode_one(state) == AsSeq([i \in 1..Len(state) |-> FieldByte(state[i])])

\* candid::decode_one(bytes)
decode_one(bytes) ==
    IF \A i \in 1..Len(bytes) : \E f \in SnapshotFields : bytes[i] = FieldByte(f)
    THEN [ok |-> TRUE,
          val |-> AsSeq([i \in 1..Len(bytes) |->
                            CHOOSE f \in SnapshotFields : bytes[i] = FieldByte(f)])]
    ELSE [ok |-> FALSE]

\* ---------------------------------------------------------------- Storage

\* new rejecting a range of exactly DEFAULT_RANGE_SIZE (>= for >).
new_RangeOffByOne(id_range_lo, id_range_hi) ==
    IF LtW(id_range_hi, id_range_lo)
    THEN [kind |-> "trap", msg |-> "improper Identity Anchor range"]
    ELSE IF LeW(DEFAULT_RANGE_SIZE, SubW(id_range_hi, id_range_lo).val)
    THEN [kind |-> "trap", msg |-> "id range is too large for a single canister"]
    ELSE [kind |-> "ok",
          header |-> [magic |-> HEADER_MAGIC,
                      version |-> 5,
                      num_users |-> U32(0),
                      id_range_lo |-> id_range_lo,
                      id_range_hi |-> id_range_hi,
                      entry_size |-> DEFAULT_ENTRY_SIZE,
                      salt |-> EMPTY_SALT,
                      first_entry_offset |-> ENTRY_OFFSET,
                      new_layout_start |-> U32(0),
                      migration_batch_size |-> U32(0)]]

\* Storage::new((id_range_lo, id_range_hi), memory): the header of the new
\* manager, or the trap.
new(id_range_lo, id_range_hi) ==
    IF LtW(id_range_hi, id_range_lo)
    THEN [kind |-> "trap", msg |-> "improper Identity Anchor range"]
    ELSE IF LtW(DEFAULT_RANGE_SIZE, SubW(id_range_hi, id_range_lo).val)
    THEN [kind |-> "trap", msg |-> "id range is too large for a single canister"]
    ELSE [kind |-> "ok",
          header |-> [magic |-> HEADER_MAGIC,
                      version |-> 5,
                      num_users |-> U32(0),
                      id_range_lo |-> id_range_lo,
                      id_range_hi |-> id_range_hi,
                      entry_size |-> DEFAULT_ENTRY_SIZE,
                      salt |-> EMPTY_SALT,
                      first_entry_offset |-> ENTRY_OFFSET,
                      new_layout_start |-> U32(0),
                      migration_batch_size |-> U32(0)]]

\* Storage::salt(): None when the stored salt is the empty salt.
salt(header) ==
    IF header.salt = EMPTY_SALT THEN [kind |-> "None"]
    ELSE [kind |-> "Some", val |-> header.salt]

\* SUPPORTED_LAYOUT_VERSIONS.start()
SupportedStart == CHOOSE v \in SUPPORTED_LAYOUT_VERSIONS :
                      \A w \in SUPPORTED_LAYOUT_VERSIONS : v <= w

\* from_memory taking a memory of one page for an empty one (size() < 2).
from_memory_EmptyBelowTwoPages(mem) ==
    IF mem.pages < 2
    THEN [kind |-> "None", reads |-> <<>>]
    ELSE LET header == HeaderFromBytes(MemRead(mem, 0, HeaderSize))
             reads == << <<0, HeaderSize>> >>
         IN  IF header.magic # HEADER_MAGIC
             THEN [kind |-> "trap", msg |-> "stable memory header: invalid magic",
                   reads |-> reads]
             ELSE IF header.version < SupportedStart
             THEN [kind |-> "trap",
                   msg |-> "stable memory layout version is no longer supported",
                   reads |-> reads]
             ELSE IF header.version \notin SUPPORTED_LAYOUT_VERSIONS
             THEN [kind |-> "trap", msg |-> "unsupported header version",
                   reads |-> reads]
             ELSE [kind |-> "Some", header |-> header, reads |-> reads]

\* from_memory checking the version before the magic.
from_memory_VersionBeforeMagic(mem) ==
    IF mem.pages < 1
    THEN [kind |-> "None", reads |-> <<>>]
    ELSE LET header == HeaderFromBytes(MemRead(mem, 0, HeaderSize))
             reads == << <<0, HeaderSize>> >>
         IN  IF header.version < SupportedStart
             THEN [kind |-> "trap",
                   msg |-> "stable memory layout version is no longer supported",
                   reads |-> reads]
             ELSE IF header.version \notin SUPPORTED_LAYOUT_VERSIONS
             THEN [kind |-> "trap", msg |-> "unsupported header version",
                   reads |-> reads]
             ELSE IF header.magic # HEADER_MAGIC
             THEN [kind |-> "trap", msg |-> "stable memory header: invalid magic",
                   reads |-> reads]
             ELSE [kind |-> "Some", header |-> header, reads |-> reads]

\* Storage::from_memory(memory): None, the trap, or the header of the manager;
\* reads lists the Memory::read calls made, as <<address, length>>.
from_memory(mem) ==
    IF mem.pages < 1
    THEN [kind |-> "None", reads |-> <<>>]
    ELSE LET header == HeaderFromBytes(MemRead(mem, 0, HeaderSize))
             reads == << <<0, HeaderSize>> >>
         IN  IF header.magic # HEADER_MAGIC
             THEN [kind |-> "trap", msg |-> "stable memory header: invalid magic",
                   reads |-> reads]
             ELSE IF header.version < SupportedStart
             THEN [kind |-> "trap",
                   msg |-> "stable memory layout version is no longer supported",
                   reads |-> reads]
             ELSE IF header.version \notin SUPPORTED_LAYOUT_VERSIONS
             THEN [kind |-> "trap", msg |-> "unsupported header version",
                   reads |-> reads]
             ELSE [kind |-> "Some", header |-> header, reads |-> reads]

\* Storage::flush(): the memory after the header was written at address 0.
flush(header, mem) ==
    LET w == WriterWrite(mem, U64(0), HeaderBytes(header))
    IN  IF w.ok THEN [kind |-> "ok", mem |-> w.mem]
        ELSE [kind |-> "trap", msg |-> "bug: failed to grow memory", mem |-> mem]

\* Storage::user_count()
user_count(header) == header.num_users

\* Storage::version()
version(header) == header.version

\* Storage::record_address(record_number): the sum wrapped to 64 bits, and
\* whether it wrapped (a panic under overflow checks).
record_address(header, record_number) ==
    AddW(header.first_entry_offset,
         MulW(Widen(record_number, 8), U64(header.entry_size)))

\* unused_memory_start taking the slot after the first unused one.
unused_memory_start_NextRecord(header) ==
    record_address(header, AddW(header.num_users, U32(1)).val)

\* Storage::unused_memory_start()
unused_memory_start(header) == record_address(header, header.num_users)

\* write_persistent_state rewriting only the content of a frame whose magic
\* is already in place.
write_persistent_state_ContentOnlyOnRewrite(header, mem, state, bs) ==
    LET a == unused_memory_start(header)
        address == a.val
        encoded_state == encode_one(state)
        present == /\ FitsNat(address)
                   /\ ToNat(address) + 12 <= MemoryEnd(mem)
                   /\ MemRead(mem, ToNat(address), 4) = PERSISTENT_STATE_MAGIC
        w1 == WriterWrite(mem, address, PERSISTENT_STATE_MAGIC)
        w2 == IF present THEN [ok |-> TRUE, mem |-> mem]
              ELSE WriterWrite(w1.mem, AddW(address, U64(4)).val, U64(Len(encoded_state)))
        w3 == WriterWrite(w2.mem, AddW(address, U64(12)).val, encoded_state)
        kept(build, m) == IF build.target = "wasm32" THEN mem ELSE m
        outcome(build) ==
            IF a.overflow /\ build.overflow_checks
            THEN [kind |-> "trap", msg |-> "attempt to add with overflow", mem |-> mem]
            ELSE IF ~w1.ok
            THEN [kind |-> "trap", msg |-> "GrowFailed", mem |-> mem]
            ELSE IF ~w2.ok
            THEN [kind |-> "trap", msg |-> "GrowFailed", mem |-> kept(build, w1.mem)]
            ELSE IF ~w3.ok
            THEN [kind |-> "trap", msg |-> "GrowFailed", mem |-> kept(build, w2.mem)]
            ELSE [kind |-> "ok", mem |-> w3.mem]
        per == AsMap([b \in bs |-> outcome(b)])
    IN  {[out |-> per[b], builds |-> {c \in bs : per[c] = per[b]}] : b \in bs}

\* Storage::write_persistent_state(state) under each of the builds bs: the
\* outcomes, each with the memory afterwards and the builds that produce it.
\* A failed write is a panic: the canister's trap rolls the memory back, a
\* native panic leaves the writes made before it.
write_persistent_state(header, mem, state, bs) ==
    LET a == unused_memory_start(header)
        address == a.val
        encoded_state == encode_one(state)
        w1 == WriterWrite(mem, address, PERSISTENT_STATE_MAGIC)
        w2 == WriterWrite(w1.mem, AddW(address, U64(4)).val, U64(Len(encoded_state)))
        w3 == WriterWrite(w2.mem, AddW(address, U64(12)).val, encoded_state)
        kept(build, m) == IF build.target = "wasm32" THEN mem ELSE m
        outcome(build) ==
            IF a.overflow /\ build.overflow_checks
            THEN [kind |-> "trap", msg |-> "attempt to add with overflow", mem |-> mem]
            ELSE IF ~w1.ok
            THEN [kind |-> "trap", msg |-> "GrowFailed", mem |-> mem]
            ELSE IF ~w2.ok
            THEN [kind |-> "trap", msg |-> "GrowFailed", mem |-> kept(build, w1.mem)]
            ELSE IF ~w3.ok
            THEN [kind |-> "trap", msg |-> "GrowFailed", mem |-> kept(build, w2.mem)]
            ELSE [kind |-> "ok", mem |-> w3.mem]
        per == AsMap([b \in bs |-> outcome(b)])
    IN  {[out |-> per[b], builds |-> {c \in bs : per[c] = per[b]}] : b \in bs}

\* ReadContent taking the length field for 4 bytes wide: the data read from
\* 8 bytes after the frame's address.
ReadContent_LengthAsU32(mem, addr, reads, build, alloc_ok) ==
    LET size == MemRead(mem, addr + 4, 8)
        len == AsUsize(size, build.usize_bits)
        r3 == ReaderRead(mem, addr + 8, len)
        reads3 == Append(reads, <<addr + 8, r3.n>>)
        decoded == decode_one(MemRead(mem, addr + 8, r3.n))
    IN  IF LtW(IsizeMax(build), len)
        THEN [kind |-> "trap", msg |-> "capacity overflow", reads |-> reads]
        ELSE IF ~FitsNat(len) /\ ~alloc_ok
        THEN [kind |-> "trap", msg |-> "memory allocation failed", reads |-> reads]
        ELSE IF ~r3.ok
        THEN [kind |-> "ReadError", max_address |-> r3.max_address,
              attempted_read_address |-> r3.attempted_read_address, reads |-> reads]
        ELSE IF U64(r3.n) # size
        THEN [kind |-> "ReadError", max_address |-> addr + 4 + 8 + r3.n,
              attempted_read_address |-> addr + 4 + 8 + r3.n + 1, reads |-> reads3]
        ELSE IF decoded.ok
        THEN [kind |-> "Ok", val |-> decoded.val, reads |-> reads3]
        ELSE [kind |-> "CandidError", reads |-> reads3]

\* ReadContent without the check that the data was read completely.
ReadContent_NoShortReadCheck(mem, addr, reads, build, alloc_ok) ==
    LET size == MemRead(mem, addr + 4, 8)
        len == AsUsize(size, build.usize_bits)
        r3 == ReaderRead(mem, addr + 12, len)
        reads3 == Append(reads, <<addr + 12, r3.n>>)
        decoded == decode_one(MemRead(mem, addr + 12, r3.n))
    IN  IF LtW(IsizeMax(build), len)
        THEN [kind |-> "trap", msg |-> "capacity overflow", reads |-> reads]
        ELSE IF ~FitsNat(len) /\ ~alloc_ok
        THEN [kind |-> "trap", msg |-> "memory allocation failed", reads |-> reads]
        ELSE IF ~r3.ok
        THEN [kind |-> "ReadError", max_address |-> r3.max_address,
              attempted_read_address |-> r3.attempted_read_address, reads |-> reads]
        ELSE IF decoded.ok
        THEN [kind |-> "Ok", val |-> decoded.val, reads |-> reads3]
        ELSE [kind |-> "CandidError", reads |-> reads3]

\* The part of read_persistent_state after the 8-byte length was read
\* completely: the data buffer, its read and the decoding.  alloc_ok: whether
\* the allocator grants a data buffer of 2 GiB or more.
ReadContent(mem, addr, reads, build, alloc_ok) ==
    LET size == MemRead(mem, addr + 4, 8)
        len == AsUsize(size, build.usize_bits)
        r3 == ReaderRead(mem, addr + 12, len)
        reads3 == Append(reads, <<addr + 12, r3.n>>)
        decoded == decode_one(MemRead(mem, addr + 12, r3.n))
    IN  IF LtW(IsizeMax(build), len)
        THEN [kind |-> "trap", msg |-> "capacity overflow", reads |-> reads]
        ELSE IF ~FitsNat(len) /\ ~alloc_ok
        THEN [kind |-> "trap", msg |-> "memory allocation failed", reads |-> reads]
        ELSE IF ~r3.ok
        THEN [kind |-> "ReadError", max_address |-> r3.max_address,
              attempted_read_address |-> r3.attempted_read_address, reads |-> reads]
        ELSE IF U64(r3.n) # size
        THEN [kind |-> "ReadError", max_address |-> addr + 4 + 8 + r3.n,
              attempted_read_address |-> addr + 4 + 8 + r3.n + 1, reads |-> reads3]
        ELSE IF decoded.ok
        THEN [kind |-> "Ok", val |-> decoded.val, reads |-> reads3]
        ELSE [kind |-> "CandidError", reads |-> reads3]

\* ReadFrame reporting a failed read of the magic as a ReadError, like the
\* reads after it.
ReadFrame_MagicReadError(mem, addr, build, alloc_ok) ==
    LET r1 == ReaderRead(mem, addr, U64(4))
        magic_buf == AsSeq([i \in 1..4 |-> IF i <= r1.n THEN MemByte(mem, addr + i - 1) ELSE 0])
        reads1 == << <<addr, r1.n>> >>
        r2 == ReaderRead(mem, addr + 4, U64(8))
        reads2 == Append(reads1, <<addr + 4, r2.n>>)
    IN  IF ~r1.ok
        THEN [kind |-> "ReadError", max_address |-> r1.max_address,
              attempted_read_address |-> r1.attempted_read_address, reads |-> <<>>]
        ELSE IF r1.n # 4 \/ magic_buf # PERSISTENT_STATE_MAGIC
        THEN [kind |-> "NotFound", reads |-> reads1]
        ELSE IF ~r2.ok
        THEN [kind |-> "ReadError", max_address |-> r2.max_address,
              attempted_read_address |-> r2.attempted_read_address, reads |-> reads1]
        ELSE IF r2.n # 8
        THEN [kind |-> "ReadError", max_address |-> addr + 4 + r2.n,
              attempted_read_address |-> addr + 4 + r2.n + 1, reads |-> reads2]
        ELSE ReadContent(mem, addr, reads2, build, alloc_ok)

\* The part of read_persistent_state that uses the reader at addr, an address
\* inside or at the end of the grown memory: the reads of the magic and of
\* the length field, then ReadContent.
ReadFrame(mem, addr, build, alloc_ok) ==
    LET r1 == ReaderRead(mem, addr, U64(4))
        magic_buf == AsSeq([i \in 1..4 |-> IF i <= r1.n THEN MemByte(mem, addr + i - 1) ELSE 0])
        reads1 == << <<addr, r1.n>> >>
        r2 == ReaderRead(mem, addr + 4, U64(8))
        reads2 == Append(reads1, <<addr + 4, r2.n>>)
    IN  IF ~r1.ok
        THEN [kind |-> "NotFound", reads |-> <<>>]
        ELSE IF r1.n # 4 \/ magic_buf # PERSISTENT_STATE_MAGIC
        THEN [kind |-> "NotFound", reads |-> reads1]
        ELSE IF ~r2.ok
        THEN [kind |-> "ReadError", max_address |-> r2.max_address,
              attempted_read_address |-> r2.attempted_read_address, reads |-> reads1]
        ELSE IF r2.n # 8
        THEN [kind |-> "ReadError", max_address |-> addr + 4 + r2.n,
              attempted_read_address |-> addr + 4 + r2.n + 1, reads |-> reads2]
        ELSE ReadContent(mem, addr, reads2, build, alloc_ok)

\* Storage::read_persistent_state() under each of the builds bs and either
\* answer of the allocator: the outcomes, each with the builds that produce
\* it; reads lists the Memory::read calls made, as <<address, length>>.
read_persistent_state(header, mem, bs) ==
    LET a == unused_memory_start(header)
        address == a.val
        outcome(build, alloc_ok) ==
            IF a.overflow /\ build.overflow_checks
            THEN [kind |-> "trap", msg |-> "attempt to add with overflow", reads |-> <<>>]
            ELSE IF LtW(U64(MemoryEnd(mem)), address)
            THEN [kind |-> "NotFound", reads |-> <<>>]
            ELSE ReadFrame(mem, ToNat(address), build, alloc_ok)
        per == AsMap([b \in bs, alloc_ok \in BOOLEAN |-> outcome(b, alloc_ok)])
    IN  {[out |-> per[b, alloc_ok],
          builds |-> {c \in bs : per[c, alloc_ok] = per[b, alloc_ok]}] :
            b \in bs, alloc_ok \in BOOLEAN}

\* ------------------------------------------------------------------ state

VARIABLES
    memory,      \* the stable memory: [pages, bytes]
    storage,     \* the Storage manager of the process, if one exists
    builds,      \* the builds the crate can be, given how its calls ended so far
    ps_written,  \* whether write_persistent_state ever wrote to this memory
    result,      \* the last call: [op, arg, out]
    origin,      \* how the manager was made: "new_empty", "new", "from_memory", "none"
    flushed,     \* whether the manager's header was flushed since it last changed
    saved        \* the last snapshot write_persistent_state wrote completely

vars == <<memory, storage, builds, ps_written, result, origin, flushed, saved>>

NoStorage == [exists |-> FALSE]

\* No snapshot was written completely, or a failed write overwrote a part of it.
NoSave == [exists |-> FALSE]

\* The snapshot val was written completely at address at (a u64); n counts the
\* writes completed at that address one after the other, up to 2.
Save(at, val, n) == [exists |-> TRUE, at |-> at, val |-> val, n |-> n]

Manager(header) == [exists |-> TRUE, header |-> header]

\* ----------------------------------------------------------------- inputs

Salt1 == AsSeq([i \in 1..32 |-> i])

Salts == {EMPTY_SALT, Salt1}

U64Max == AsSeq([i \in 1..8 |-> 255])

\* (id_range_lo, id_range_hi) arguments of Storage::new: an empty range, a
\* range of exactly DEFAULT_RANGE_SIZE, a reversed range, two ranges too large.
Ranges ==
    {<<U64(10), U64(10)>>,
     <<U64(10), AddW(U64(10), DEFAULT_RANGE_SIZE).val>>,
     <<U64(20), U64(10)>>,
     <<U64(10), AddW(U64(11), DEFAULT_RANGE_SIZE).val>>,
     <<U64(0), U64Max>>}

\* Record numbers record_address is asked for (n and n + 1 are both u32).
RecordNumbers == {U32(0), U32(1), U32(5), <<254, 255, 255, 255>>}

\* A memory of p zero pages with the bytes of header h at address 0.
Image(p, h) == MemWrite([pages |-> p, bytes |-> [a \in {} |-> 0]], 0, HeaderBytes(h))

ZeroPages(p) == [pages |-> p, bytes |-> [a \in {} |-> 0]]

\* The header Storage::new((10, 20), _) builds.
BaseHeader == new(U64(10), U64(20)).header

\* -------------------------------------------------- stable memory images
\* Memories a process can find at start: left by an earlier process, by an
\* earlier version of the canister, or corrupted.

\* Headers of every layout version around the supported range.
VersionImages ==
    {Image(1, [BaseHeader EXCEPT !.version = v]) : v \in {0, 1, 2, 3, 4, 5, 6, 255}}

BadMagics == {<<73, 73, 68>>, <<0, 73, 67>>, <<73, 0, 67>>}

\* Headers whose magic is not "IIC", and pages no header was ever written to.
BadMagicImages ==
    {Image(1, [BaseHeader EXCEPT !.magic = m, !.version = v]) :
        m \in BadMagics, v \in {0, 2, 3, 5, 6, 255}}
      \cup {ZeroPages(1), ZeroPages(3)}

\* <<pages, num_users>>: the first unused address beyond, at the end of, and
\* inside the grown memory.
CountCases ==
    {<<1, U32(0)>>, <<2, U32(0)>>, <<3, U32(0)>>, <<4, U32(3)>>, <<3, U32(15)>>,
     <<3, U32(16)>>, <<3, U32(17)>>, <<3, <<255, 255, 255, 255>> >>}

CountImages == {Image(c[1], [BaseHeader EXCEPT !.num_users = c[2]]) : c \in CountCases}

\* Headers whose id range is reversed or too large.
RangeImages ==
    {Image(1, [BaseHeader EXCEPT !.id_range_lo = r[1], !.id_range_hi = r[2]]) :
        r \in {<<U64(20), U64(10)>>,
               <<U64(10), AddW(U64(11), DEFAULT_RANGE_SIZE).val>>,
               <<U64(0), U64Max>>}}

\* Headers whose entry size or first entry offset is not the one new() sets.
LayoutImages ==
    {Image(3, [BaseHeader EXCEPT !.entry_size = 0, !.num_users = U32(5)]),
     Image(3, [BaseHeader EXCEPT !.entry_size = 65535, !.num_users = U32(1)]),
     Image(1, [BaseHeader EXCEPT !.first_entry_offset = U64(0)]),
     Image(1, [BaseHeader EXCEPT !.first_entry_offset = U64(WASM_PAGE_SIZE - 2)]),
     Image(1, [BaseHeader EXCEPT !.first_entry_offset = U64(WASM_PAGE_SIZE - 4)]),
     Image(1, [BaseHeader EXCEPT !.first_entry_offset = SubW(U64(0), U64(4096)).val]),
     Image(1, [BaseHeader EXCEPT !.first_entry_offset = SubW(U64(0), U64(4096)).val,
                                 !.num_users = U32(1)]),
     Image(1, [BaseHeader EXCEPT !.first_entry_offset = U64Max])}

\* The memory with the bytes of a persistent-state frame (magic, length
\* field, content) at addr, as far as the grown pages reach.
WithFrame(mem, addr, size, content) ==
    LET frame == PERSISTENT_STATE_MAGIC \o size \o content
        n == IF addr + Len(frame) > MemoryEnd(mem) THEN MemoryEnd(mem) - addr
             ELSE Len(frame)
    IN  MemWrite(mem, addr, SubSeq(frame, 1, n))

\* <<length field, content>> of frames at the first unused address 131072 of a
\* memory of 3 pages: complete, undecodable, and declaring more content than
\* the 65524 bytes the memory holds after the length field.
FrameCases ==
    {<<U64(2), <<49, 50>> >>,
     <<U64(2), <<0, 0>> >>,
     <<U64(65524), <<49>> >>,
     <<U64(65525), <<49>> >>,
     <<U64(70000), <<49>> >>,
     <<<<0, 0, 0, 128, 0, 0, 0, 0>>, <<49>> >>,
     <<<<0, 0, 0, 0, 1, 0, 0, 0>>, <<49>> >>,
     <<<<2, 0, 0, 0, 1, 0, 0, 0>>, <<49, 50>> >>,
     <<<<0, 0, 0, 0, 0, 0, 0, 128>>, <<49>> >>,
     <<U64Max, <<49>> >>}

\* <<bytes from the frame's address to the end of the memory, length field,
\* content>> of frames next to the end of a memory of 1 page.
EdgeFrameCases ==
    {<<4, U64(1), <<49>> >>,
     <<7, U64(1), <<49>> >>,
     <<11, U64(1), <<49>> >>,
     <<12, U64(0), <<>> >>,
     <<12, U64(1), <<49>> >>,
     <<13, U64(2), <<49, 50>> >>,
     <<14, U64(2), <<49, 50>> >>}

FrameImages ==
    {WithFrame(Image(3, BaseHeader), 2 * WASM_PAGE_SIZE, f[1], f[2]) : f \in FrameCases}
      \cup
    {WithFrame(Image(1, [BaseHeader EXCEPT
                            !.first_entry_offset = U64(WASM_PAGE_SIZE - f[1])]),
               WASM_PAGE_SIZE - f[1], f[2], f[3]) : f \in EdgeFrameCases}

\* The images no persistent state was ever written to.
UnwrittenImages ==
    {EmptyMemory} \cup VersionImages \cup BadMagicImages \cup CountImages
      \cup RangeImages \cup LayoutImages

\* ---------------------------------------------------------------- actions

\* new writing the header of the manager it builds.
New_Flushing(id_range_lo, id_range_hi) ==
    LET r == new(id_range_lo, id_range_hi)
    IN  /\ storage' = IF r.kind = "ok" THEN Manager(r.header) ELSE NoStorage
        /\ memory' = IF r.kind = "ok" THEN flush(r.header, memory).mem ELSE memory
        /\ result' = [op |-> "new", arg |-> <<id_range_lo, id_range_hi>>, out |-> r]
        /\ origin' = IF r.kind # "ok" THEN "none"
                     ELSE IF memory.pages = 0 THEN "new_empty" ELSE "new"
        /\ flushed' = (r.kind = "ok")
        /\ UNCHANGED <<builds, ps_written, saved>>

New(id_range_lo, id_range_hi) ==
    LET r == new(id_range_lo, id_range_hi)
    IN  /\ storage' = IF r.kind = "ok" THEN Manager(r.header) ELSE NoStorage
        /\ result' = [op |-> "new", arg |-> <<id_range_lo, id_range_hi>>, out |-> r]
        /\ origin' = IF r.kind # "ok" THEN "none"
                     ELSE IF memory.pages = 0 THEN "new_empty" ELSE "new"
        /\ flushed' = FALSE
        /\ UNCHANGED <<memory, builds, ps_written, saved>>

FromMemory ==
    LET r == from_memory(memory)
    IN  /\ storage' = IF r.kind = "Some" THEN Manager(r.header) ELSE NoStorage
        /\ result' = [op |-> "from_memory", arg |-> <<>>, out |-> r]
        /\ origin' = IF r.kind = "Some" THEN "from_memory" ELSE "none"
        /\ flushed' = (r.kind = "Some")
        /\ UNCHANGED <<memory, builds, ps_written, saved>>

Flush ==
    /\ storage.exists
    /\ LET r == flush(storage.header, memory)
       IN  /\ memory' = r.mem
           /\ result' = [op |-> "flush", arg |-> <<>>, out |-> [kind |-> r.kind]]
           /\ flushed' = (r.kind = "ok")
    /\ UNCHANGED <<storage, builds, ps_written, origin, saved>>

\* update_salt flushing the header before it stores the salt in it.
UpdateSalt_FlushBeforeStore(s) ==
    /\ storage.exists
    /\ LET r == flush(storage.header, memory)
       IN  /\ storage' = Manager([storage.header EXCEPT !.salt = s])
           /\ memory' = r.mem
           /\ result' = [op |-> "update_salt", arg |-> s, out |-> [kind |-> r.kind]]
           /\ flushed' = (r.kind = "ok")
    /\ UNCHANGED <<builds, ps_written, origin, saved>>

\* update_salt storing the salt without flushing the header.
UpdateSalt_NoFlush(s) ==
    /\ storage.exists
    /\ storage' = Manager([storage.header EXCEPT !.salt = s])
    /\ result' = [op |-> "update_salt", arg |-> s, out |-> [kind |-> "ok"]]
    /\ UNCHANGED <<memory, builds, ps_written, origin, flushed, saved>>

UpdateSalt(s) ==
    /\ storage.exists
    /\ LET header == [storage.header EXCEPT !.salt = s]
           r == flush(header, memory)
       IN  /\ storage' = Manager(header)
           /\ memory' = r.mem
           /\ result' = [op |-> "update_salt", arg |-> s, out |-> [kind |-> r.kind]]
           /\ flushed' = (r.kind = "ok")
    /\ UNCHANGED <<builds, ps_written, origin, saved>>

WritePersistentState(state) ==
    /\ storage.exists
    /\ \E r \in write_persistent_state(storage.header, memory, state, builds) :
         /\ memory' = r.out.mem
         /\ builds' = r.builds
         /\ ps_written' = (ps_written \/ r.out.kind = "ok" \/ r.out.mem # memory)
         /\ result' = [op |-> "write_persistent_state", arg |-> state,
                       out |-> [kind |-> r.out.kind]]
         /\ saved' = LET at == unused_memory_start(storage.header).val
                     IN  IF r.out.kind = "ok"
                         THEN Save(at, state,
                                   IF saved.exists /\ saved.at = at THEN 2 ELSE 1)
                         ELSE IF r.out.mem = memory THEN saved ELSE NoSave
    /\ UNCHANGED <<storage, origin, flushed>>

ReadPersistentState ==
    /\ storage.exists
    /\ \E r \in read_persistent_state(storage.header, memory, builds) :
         /\ builds' = r.builds
         /\ result' = [op |-> "read_persistent_state", arg |-> <<>>, out |-> r.out]
    /\ UNCHANGED <<memory, storage, ps_written, origin, flushed, saved>>

GetSalt ==
    /\ storage.exists
    /\ result' = [op |-> "salt", arg |-> <<>>, out |-> salt(storage.header)]
    /\ UNCHANGED <<memory, storage, builds, ps_written, origin, flushed, saved>>

UserCount ==
    /\ storage.exists
    /\ result' = [op |-> "user_count", arg |-> <<>>,
                  out |-> [kind |-> "ok", val |-> user_count(storage.header)]]
    /\ UNCHANGED <<memory, storage, builds, ps_written, origin, flushed, saved>>

Version ==
    /\ storage.exists
    /\ result' = [op |-> "version", arg |-> <<>>,
                  out |-> [kind |-> "ok", val |-> version(storage.header)]]
    /\ UNCHANGED <<memory, storage, builds, ps_written, origin, flushed, saved>>

RecordAddress(record_number) ==
    /\ storage.exists
    /\ result' = [op |-> "record_address", arg |-> record_number,
                  out |-> record_address(storage.header, record_number)]
    /\ UNCHANGED <<memory, storage, builds, ps_written, origin, flushed, saved>>

\* --------------------------------------------------------- specifications

NoCall == [op |-> "none", arg |-> <<>>, out |-> [kind |-> "none"]]

\* A process on fresh memory.
Init ==
    /\ memory = EmptyMemory
    /\ storage = NoStorage
    /\ builds = Builds
    /\ ps_written = FALSE
    /\ result = NoCall
    /\ origin = "none"
    /\ flushed = FALSE
    /\ saved = NoSave

Next ==
    \/ \E r \in Ranges : New(r[1], r[2])
    \/ FromMemory
    \/ Flush
    \/ \E s \in Salts : UpdateSalt(s)
    \/ \E state \in Snapshots : WritePersistentState(state)
    \/ ReadPersistentState
    \/ GetSalt
    \/ UserCount
    \/ Version
    \/ \E n \in RecordNumbers : RecordAddress(n)

Spec == Init /\ [][Next]_vars

\* A process attaching to whatever the stable memory holds (an upgrade), then
\* saving and restoring persistent state.
InitUpgrade ==
    /\ \/ memory \in UnwrittenImages /\ ps_written = FALSE
       \/ memory \in FrameImages /\ ps_written = TRUE
    /\ storage = NoStorage
    /\ builds = Builds
    /\ result = NoCall
    /\ origin = "none"
    /\ flushed = FALSE
    /\ saved = NoSave

NextUpgrade ==
    \/ FromMemory
    \/ \E state \in Snapshots : WritePersistentState(state)
    \/ ReadPersistentState
    \/ GetSalt
    \/ UserCount
    \/ Version
    \/ \E n \in RecordNumbers : RecordAddress(n)

SpecUpgrade == InitUpgrade /\ [][NextUpgrade]_vars

\* A process that makes or attaches a manager on whatever the stable memory
\* holds and then only queries it.
NextQuery ==
    \/ \E r \in Ranges : New(r[1], r[2])
    \/ FromMemory
    \/ ReadPersistentState
    \/ GetSalt
    \/ UserCount
    \/ Version

SpecQuery == InitUpgrade /\ [][NextQuery]_vars

\* ----------------------------------------------------------------- claims

\* C1: a write_persistent_state(snapshot) that returned, immediately followed
\* by read_persistent_state() on the same manager, returns Ok with a value
\* equal to snapshot, whatever the record count and the memory size.
C1_WriteReadRoundTrip ==
    [][(/\ result.op = "write_persistent_state"
        /\ result.out.kind = "ok"
        /\ result'.op = "read_persistent_state")
       => (result'.out.kind = "Ok" /\ result'.out.val = result.arg)]_vars

\* A snapshot of MaxLen fields, not held by any memory image, read back by a
\* manager with a nonzero record count.
C1_Witness ==
    /\ result.op = "read_persistent_state"
    /\ result.out.kind = "Ok"
    /\ Len(result.out.val) = MaxLen
    /\ result.out.val[1] = 2
    /\ storage.header.num_users # U32(0)

\* C2: read_persistent_state() on a memory no persistent state was written to
\* returns NotFound (no ReadError, no CandidError, no trap) for every memory
\* size and record count whose first unused address is a 64-bit address, and
\* it reads nothing when that address lies beyond the grown memory.
C2_NeverWrittenNotFound ==
    (/\ result.op = "read_persistent_state"
     /\ ~ps_written
     /\ ~unused_memory_start(storage.header).overflow)
    => /\ result.out.kind = "NotFound"
       /\ LtW(U64(MemoryEnd(memory)), unused_memory_start(storage.header).val)
            => result.out.reads = <<>>

\* The first unused address is the end of a grown memory of 3 pages.
C2_Witness ==
    /\ result.op = "read_persistent_state"
    /\ ~ps_written
    /\ memory.pages = 3
    /\ unused_memory_start(storage.header) =
          [val |-> U64(MemoryEnd(memory)), overflow |-> FALSE]
    /\ result.out.kind = "NotFound"

\* C3: when the magic "IIPS" is fully present at the first unused address and
\* the grown memory ends before the end of the length field or of the
\* declared content, read_persistent_state() returns ReadError and the
\* reported max_address is the end of the grown memory.
C3_TruncatedFrameReadError ==
    LET a == unused_memory_start(storage.header)
        addr == ToNat(a.val)
        end == MemoryEnd(memory)
    IN  (/\ result.op = "read_persistent_state"
         /\ ~a.overflow
         /\ FitsNat(a.val)
         /\ addr + 4 <= end
         /\ MemRead(memory, addr, 4) = <<73, 73, 80, 83>>
         /\ \/ end < addr + 12
            \/ LtW(U64(end - (addr + 12)), MemRead(memory, addr + 4, 8)))
        => (result.out.kind = "ReadError" /\ result.out.max_address = end)

\* C4: flush() of a manager made by new, followed by from_memory() on that
\* memory, returns a manager whose header equals the flushed one in every
\* field.
C4_FlushFromMemoryRoundTrip ==
    [][(/\ result.op = "flush"
        /\ result.out.kind = "ok"
        /\ result'.op = "from_memory")
       => (/\ result'.out.kind = "Some"
           /\ result'.out.header = storage.header
           /\ storage' = storage)]_vars

\* The header of new((10, 10 + DEFAULT_RANGE_SIZE)) loaded back from a memory
\* that was empty before the flush.
C4_Witness ==
    /\ result.op = "from_memory"
    /\ result.out.kind = "Some"
    /\ memory.pages = 1
    /\ storage.header.id_range_lo = U64(10)
    /\ SubW(storage.header.id_range_hi, storage.header.id_range_lo).val = DEFAULT_RANGE_SIZE
    /\ storage.header.version = 5
    /\ storage.header.num_users = U32(0)

\* C5: from_memory returns None exactly when the memory has zero pages, and
\* then reads nothing; with at least one page it reads the header window at
\* address 0 and either traps or returns a manager.
C5_EmptyIffNoPages ==
    result.op = "from_memory"
    => /\ (result.out.kind = "None") <=> (memory.pages = 0)
       /\ memory.pages = 0 => result.out.reads = <<>>
       /\ memory.pages >= 1
            => /\ result.out.reads = << <<0, 74>> >>
               /\ result.out.kind \in {"trap", "Some"}

\* from_memory on the memory without pages.
C5_Witness ==
    /\ result.op = "from_memory"
    /\ memory.pages = 0
    /\ result.out.kind = "None"
    /\ ~storage.exists

\* C6: from_memory on a memory of at least one page whose first 3 bytes are
\* not "IIC" ends in the invalid-magic trap, whatever the version byte.
C6_BadMagicTraps ==
    (/\ result.op = "from_memory"
     /\ memory.pages >= 1
     /\ MemRead(memory, 0, 3) # <<73, 73, 67>>)
    => (/\ result.out.kind = "trap"
        /\ result.out.msg = "stable memory header: invalid magic")

\* A wrong magic next to a version byte of the supported range.
C6_Witness ==
    /\ result.op = "from_memory"
    /\ MemRead(memory, 0, 3) = <<73, 73, 68>>
    /\ MemByte(memory, 3) = 5
    /\ result.out.kind = "trap"

\* C7: from_memory on a memory with the magic "IIC" returns a manager exactly
\* when the version byte is in 3..5; a version below 3 ends in the "no longer
\* supported" trap and a version above 5 in the "unsupported header version"
\* trap.
C7_VersionRange ==
    (/\ result.op = "from_memory"
     /\ memory.pages >= 1
     /\ MemRead(memory, 0, 3) = <<73, 73, 67>>)
    => LET v == MemByte(memory, 3)
       IN  /\ (result.out.kind = "Some") <=> (v \in 3..5)
           /\ v < 3 => /\ result.out.kind = "trap"
                       /\ result.out.msg =
                            "stable memory layout version is no longer supported"
           /\ v > 5 => /\ result.out.kind = "trap"
                       /\ result.out.msg = "unsupported header version"

\* The first version above the supported range.
C7_Witness ==
    /\ result.op = "from_memory"
    /\ MemRead(memory, 0, 3) = <<73, 73, 67>>
    /\ MemByte(memory, 3) = 6
    /\ result.out.kind = "trap"

\* C8: new((lower, upper), memory) traps exactly when upper < lower or
\* upper - lower > DEFAULT_RANGE_SIZE; otherwise the header has version 5,
\* record count 0, entry size 4096, the all-zero salt, first entry offset
\* 131072 and the given range.
C8_NewAcceptsProperRanges ==
    result.op = "new"
    => LET lower == result.arg[1]
           upper == result.arg[2]
       IN  /\ (result.out.kind = "trap")
                <=> (LtW(upper, lower) \/ LtW(DEFAULT_RANGE_SIZE, SubW(upper, lower).val))
           /\ result.out.kind # "trap"
                => storage = [exists |-> TRUE,
                              header |-> [magic |-> <<73, 73, 67>>,
                                          version |-> 5,
                                          num_users |-> U32(0),
                                          id_range_lo |-> lower,
                                          id_range_hi |-> upper,
                                          entry_size |-> 4096,
                                          salt |-> [i \in 1..32 |-> 0],
                                          first_entry_offset |-> U64(131072),
                                          new_layout_start |-> U32(0),
                                          migration_batch_size |-> U32(0)]]

\* A range of exactly DEFAULT_RANGE_SIZE is accepted.
C8_Witness ==
    /\ result.op = "new"
    /\ SubW(result.arg[2], result.arg[1]).val = DEFAULT_RANGE_SIZE
    /\ result.out.kind = "ok"
    /\ storage.exists

\* C9: the header of every manager that exists has the magic "IIC", a
\* version in the supported range, id_range_lo <= id_range_hi and
\* id_range_hi - id_range_lo <= DEFAULT_RANGE_SIZE.
C9_HeaderInvariants ==
    storage.exists
    => /\ storage.header.magic = <<73, 73, 67>>
       /\ storage.header.version \in SUPPORTED_LAYOUT_VERSIONS
       /\ LeW(storage.header.id_range_lo, storage.header.id_range_hi)
       /\ LeW(SubW(storage.header.id_range_hi, storage.header.id_range_lo).val,
              DEFAULT_RANGE_SIZE)

\* C10: for every manager, record_address(0) is first_entry_offset, and for
\* every record number n the sums record_address(n) and record_address(n + 1)
\* do not wrap around 64 bits and record_address(n) < record_address(n + 1).
C10_RecordAddressIncreasing ==
    storage.exists
    => /\ record_address(storage.header, U32(0)) =
             [val |-> storage.header.first_entry_offset, overflow |-> FALSE]
       /\ \A n \in RecordNumbers :
             LET this == record_address(storage.header, n)
                 next == record_address(storage.header, AddW(n, U32(1)).val)
             IN  /\ ~this.overflow
                 /\ ~next.overflow
                 /\ LtW(this.val, next.val)

\* C11: update_salt(v) stores v in the header and flushes it, so that right
\* afterwards bytes 26..57 of the memory hold v and from_memory on that memory
\* yields a manager with the same header; salt() returns None exactly when
\* the stored salt is all zero and otherwise the stored salt.
C11_UpdateSaltAndSalt ==
    [][/\ result'.op = "update_salt"
            => /\ result'.out.kind = "ok"
               /\ storage'.header.salt = result'.arg
               /\ MemRead(memory', 26, 32) = result'.arg
       /\ (result.op = "update_salt" /\ result'.op = "from_memory")
            => /\ result'.out.kind = "Some"
               /\ result'.out.header.salt = result.arg
               /\ storage' = storage
       /\ result'.op = "salt"
            => /\ (result'.out.kind = "None")
                    <=> (\A i \in 1..32 : storage'.header.salt[i] = 0)
               /\ result'.out.kind # "None"
                    => result'.out = [kind |-> "Some", val |-> storage'.header.salt]]_vars

\* A manager loaded from the memory update_salt left, with the salt it stored.
C11_Witness ==
    /\ result.op = "from_memory"
    /\ result.out.kind = "Some"
    /\ storage.header.salt = Salt1
    /\ MemRead(memory, 26, 32) = Salt1

\* C12: flush() never fails and makes the header window at address 0 the
\* serialization of the manager's header (magic at 0, version at 3, num_users
\* at 4, id_range_lo at 8, id_range_hi at 16, entry_size at 24, salt at 26,
\* first_entry_offset at 58); it grows an empty memory by one page and no
\* other memory, and changes neither a byte outside the window nor the
\* manager's header.
C12_FlushEffect ==
    [][result'.op = "flush"
       => /\ result'.out.kind = "ok"
          /\ MemRead(memory', 0, 3) = storage.header.magic
          /\ MemByte(memory', 3) = storage.header.version
          /\ MemRead(memory', 4, 4) = storage.header.num_users
          /\ MemRead(memory', 8, 8) = storage.header.id_range_lo
          /\ MemRead(memory', 16, 8) = storage.header.id_range_hi
          /\ MemByte(memory', 24) + 256 * MemByte(memory', 25) = storage.header.entry_size
          /\ MemRead(memory', 26, 32) = storage.header.salt
          /\ MemRead(memory', 58, 8) = storage.header.first_entry_offset
          /\ memory'.pages = IF memory.pages = 0 THEN 1 ELSE memory.pages
          /\ \A a \in (DOMAIN memory.bytes) \cup (DOMAIN memory'.bytes) :
                a >= 74 => MemByte(memory', a) = MemByte(memory, a)
          /\ storage' = storage]_vars

\* The header with a salt, flushed to a memory that holds a persistent state.
C12_Witness ==
    /\ result.op = "flush"
    /\ result.out.kind = "ok"
    /\ memory.pages = 3
    /\ saved.exists
    /\ MemRead(memory, 26, 32) = Salt1
    /\ MemRead(memory, 2 * 65536, 4) = <<73, 73, 80, 83>>

\* C13: a write_persistent_state(s) that returned, with L the length of the
\* encoded s and A = record_address(num_users), leaves "IIPS" at A, the
\* little-endian u64 L at A + 4 and the encoded s at A + 12; it changes no
\* byte below A (the header window included, which lies below the first
\* unused address of every header new builds) and no byte from A + 12 + L on,
\* grows the memory just to cover A + 12 + L, and leaves the manager's
\* header unchanged.
C13_WriteFrameEffect ==
    [][(result'.op = "write_persistent_state" /\ result'.out.kind = "ok")
       => LET A == ToNat(record_address(storage.header, storage.header.num_users).val)
              encoded == encode_one(result'.arg)
              L == Len(encoded)
              needed == (A + 12 + L + 65535) \div 65536
          IN  /\ MemRead(memory', A, 4) = <<73, 73, 80, 83>>
              /\ MemRead(memory', A + 4, 8) = <<L, 0, 0, 0, 0, 0, 0, 0>>
              /\ MemRead(memory', A + 12, L) = encoded
              /\ \A a \in (DOMAIN memory.bytes) \cup (DOMAIN memory'.bytes) :
                    (a < A \/ a >= A + 12 + L) => MemByte(memory', a) = MemByte(memory, a)
              /\ A >= 74 => MemRead(memory', 0, 74) = MemRead(memory, 0, 74)
              /\ memory'.pages = IF needed > memory.pages THEN needed ELSE memory.pages
              /\ storage' = storage]_vars

\* A snapshot of MaxLen fields saved by a manager with 3 records: the frame
\* at record_address(3) = 131072 + 3 * 4096.
C13_Witness ==
    /\ result.op = "write_persistent_state"
    /\ result.out.kind = "ok"
    /\ storage.header.num_users = U32(3)
    /\ Len(result.arg) = MaxLen
    /\ MemRead(memory, 143360, 4) = <<73, 73, 80, 83>>
    /\ MemRead(memory, 143364, 8) = U64(MaxLen)

\* C14: read_persistent_state returns CandidError exactly when the magic
\* matched, the 8-byte length and all the declared content lie inside the
\* grown memory, and the content does not decode; a truncated frame never
\* yields CandidError, a complete undecodable frame neither NotFound nor
\* ReadError.
C14_CandidErrorIffCompleteUndecodable ==
    LET a == unused_memory_start(storage.header)
        addr == ToNat(a.val)
        end == MemoryEnd(memory)
        size == MemRead(memory, addr + 4, 8)
        complete ==
            /\ FitsNat(a.val)
            /\ addr + 12 <= end
            /\ MemRead(memory, addr, 4) = <<73, 73, 80, 83>>
            /\ LeW(size, U64(end - (addr + 12)))
        undecodable == ~decode_one(MemRead(memory, addr + 12, ToNat(size))).ok
    IN  (result.op = "read_persistent_state" /\ ~a.overflow)
        => ((result.out.kind = "CandidError") <=> (complete /\ undecodable))

\* A frame whose undecodable content ends exactly at the end of the memory.
C14_Witness ==
    /\ result.op = "read_persistent_state"
    /\ result.out.kind = "CandidError"
    /\ memory.pages = 3
    /\ MemRead(memory, 131072, 4) = <<73, 73, 80, 83>>
    /\ MemRead(memory, 131076, 8) = U64(65524)

\* C15: no call of new, from_memory, flush, update_salt,
\* write_persistent_state, read_persistent_state, salt, user_count or version
\* decreases the page count of the memory.
C15_PagesNeverDecrease ==
    [][memory'.pages >= memory.pages]_vars

\* A flush on a memory that write_persistent_state grew to 3 pages.
C15_Witness ==
    /\ result.op = "flush"
    /\ memory.pages = 3
    /\ saved.exists

\* C16: new, salt, user_count, version and read_persistent_state (on every
\* outcome) leave the page count and every byte of the memory unchanged; salt,
\* user_count, version and read_persistent_state also leave the manager's
\* header unchanged.
C16_ReadOnlyCalls ==
    [][/\ result'.op \in {"new", "salt", "user_count", "version", "read_persistent_state"}
            => memory' = memory
       /\ result'.op \in {"salt", "user_count", "version", "read_persistent_state"}
            => storage' = storage]_vars

\* A manager made by new on the memory without pages, which is still without
\* pages.
C16_Witness ==
    /\ result.op = "new"
    /\ result.out.kind = "ok"
    /\ storage.exists
    /\ memory = EmptyMemory

\* C17: when the manager's header was flushed since it last changed and
\* write_persistent_state(s) completed at its first unused address (before or
\* after the flush), from_memory on that memory returns a manager with the
\* same header, and read_persistent_state() on that manager returns Ok with a
\* value equal to s.
C17_RestartCycle ==
    [][/\ (/\ storage.exists
           /\ flushed
           /\ saved.exists
           /\ saved.at = unused_memory_start(storage.header).val
           /\ result'.op = "from_memory")
            => /\ result'.out.kind = "Some"
               /\ result'.out.header = storage.header
               /\ storage' = storage
       /\ (/\ result.op = "from_memory"
           /\ result.out.kind = "Some"
           /\ saved.exists
           /\ saved.at = unused_memory_start(storage.header).val
           /\ result'.op = "read_persistent_state")
            => /\ result'.out.kind = "Ok"
               /\ result'.out.val = saved.val]_vars

\* A manager with a salt, loaded from the memory that holds its flushed
\* header and a snapshot of MaxLen fields, reads the snapshot.
C17_Witness ==
    /\ result.op = "read_persistent_state"
    /\ result.out.kind = "Ok"
    /\ origin = "from_memory"
    /\ saved.exists
    /\ result.out.val = saved.val
    /\ Len(saved.val) = MaxLen
    /\ storage.header.salt = Salt1

\* C18 as claimed: in every state a manager made by new on empty memory
\* reaches by flush, update_salt and write_persistent_state calls, the memory
\* has zero pages or its header window holds the serialization of the
\* manager's header, so that from_memory returns that header.
C18_AlwaysAttachable ==
    origin = "new_empty"
    => \/ memory.pages = 0
       \/ /\ MemRead(memory, 0, 74) = HeaderBytes(storage.header)
          /\ from_memory(memory).kind = "Some"
          /\ from_memory(memory).header = storage.header

\* C18 as amended: once the manager made by new on empty memory has called
\* flush or update_salt, the header window holds the serialization of its
\* header and from_memory returns that header; before that, the memory has
\* zero pages or, after a write_persistent_state, pages whose header window
\* is all zero, on which from_memory traps with "invalid magic".
C18_AttachableOnceFlushed ==
    origin = "new_empty"
    => IF flushed
       THEN /\ MemRead(memory, 0, 74) = HeaderBytes(storage.header)
            /\ from_memory(memory).kind = "Some"
            /\ from_memory(memory).header = storage.header
       ELSE \/ memory.pages = 0
            \/ /\ ps_written
               /\ \A a \in 0..73 : MemByte(memory, a) = 0
               /\ from_memory(memory).kind = "trap"
               /\ from_memory(memory).msg = "stable memory header: invalid magic"

\* The manager set a salt after it saved a snapshot: the memory holds the
\* header with the salt.
C18_Witness ==
    /\ origin = "new_empty"
    /\ flushed
    /\ saved.exists
    /\ storage.header.salt = Salt1
    /\ result.op = "update_salt"
    /\ from_memory(memory).kind = "Some"

\* C19: when write_persistent_state(s2) completed at the address an earlier
\* write_persistent_state(s1) completed at (the record count unchanged), an
\* immediately following read_persistent_state() returns Ok with a value
\* equal to s2, whatever the lengths of s1 and s2.
C19_LastWriteWins ==
    [][(/\ saved.exists
        /\ saved.n = 2
        /\ result.op = "write_persistent_state"
        /\ result.out.kind = "ok"
        /\ result'.op = "read_persistent_state")
       => (/\ result'.out.kind = "Ok"
           /\ result'.out.val = result.arg
           /\ result'.out.val = saved.val)]_vars

\* The snapshot read is shorter than one written before it at
\* record_address(3) of a memory that held no frame: a byte of the earlier
\* content is left right after the frame.
C19_Witness ==
    /\ result.op = "read_persistent_state"
    /\ result.out.kind = "Ok"
    /\ saved.exists
    /\ saved.n = 2
    /\ storage.header.num_users = U32(3)
    /\ Len(result.out.val) < MaxLen
    /\ MemByte(memory, 143360 + 12 + Len(result.out.val)) # 0

====
